---- MODULE Spec2Model ----
(***************************************************************************)
(* pgxotel: the pgx tracer hooks (connect, prepare, query, copy, batch)    *)
(* bound to an OpenTelemetry tracer.  The state is what a recording stub   *)
(* of the tracing API observes: the spans the adapter starts and the calls *)
(* it makes on every span, together with each driver operation's position  *)
(* between its Start and its End hook.                                     *)
(*                                                                         *)
(* Go strings that the code inspects or concatenates (SQL text, span       *)
(* names, command tags) are sequences of one-character strings; attribute  *)
(* keys are plain strings.  Two variants of the adapter are in the source: *)
(* "db" (src/tracer.go 1-272, textually the same as QueryTracer in         *)
(* src/unnamed/part_001) and "pgx" (src/tracer.go 274-532).                *)
(***************************************************************************)
EXTENDS Integers, Sequences, FiniteSets, TLC

VARIABLES variant, ops, amb, spans

vars == <<variant, ops, amb, spans>>

(***************************************************************************)
(* Bounds                                                                  *)
(***************************************************************************)
\* driver operations that may be in flight at once, each with its own context
MaxOps == 2
\* TraceBatchQuery calls between TraceBatchStart and TraceBatchEnd
MaxBatch == 2
\* depth of fmt.Errorf("...%w") wrapping around a base error
MaxWrap == 1

Ops == 1..MaxOps

(***************************************************************************)
(* Characters and strings                                                  *)
(***************************************************************************)
Digits == <<"0", "1", "2", "3", "4", "5", "6", "7", "8", "9">>

DigitSet == {Digits[i] : i \in 1..Len(Digits)}

LetterSet ==
    {"a", "b", "c", "d", "e", "f", "g", "h", "i", "j", "k", "l", "m",
     "n", "o", "p", "q", "r", "s", "t", "u", "v", "w", "x", "y", "z",
     "A", "B", "C", "D", "E", "F", "G", "H", "I", "J", "K", "L", "M",
     "N", "O", "P", "Q", "R", "S", "T", "U", "V", "W", "X", "Y", "Z"}

\* RE2 \w: [0-9A-Za-z_]
WordClass == LetterSet \cup DigitSet \cup {"_"}

\* RE2 \s: [\t\n\f\r ]
SpaceClass == {" ", "\t", "\n", "\f", "\r"}

\* s[from..to], empty when to < from
Slice(s, from, to) == SubSeq(s, from, to)

\* the first index >= i of s whose character is not in class (Len(s)+1 if none):
\* the end of a greedy class+ run starting at i
RECURSIVE RunEnd(_, _, _)
RunEnd(s, i, class) ==
    IF i > Len(s) \/ s[i] \notin class THEN i ELSE RunEnd(s, i + 1, class)

\* strings.HasPrefix at offset i
HasAt(s, i, lit) ==
    /\ i + Len(lit) - 1 <= Len(s)
    /\ Slice(s, i, i + Len(lit) - 1) = lit

unknown == <<"u", "n", "k", "n", "o", "w", "n">>


(***************************************************************************)
(* Span naming: span, pattern, name, query                                 *)
(***************************************************************************)
\* pattern.FindStringSubmatch(v) for ^--\s+name:\s+(\w+): <<>> when there is
\* no match, else <<whole match, first group>>.  The classes \s, \w and the
\* literals that follow them are disjoint, so each greedy run is final.
FindStringSubmatch(v) ==
    LET sp1  == 3
        kw   == RunEnd(v, sp1, SpaceClass)
        sp2  == kw + 5
        id   == RunEnd(v, sp2, SpaceClass)
        stop == RunEnd(v, id, WordClass)
    IN  IF /\ HasAt(v, 1, <<"-", "-">>)
           /\ kw > sp1
           /\ HasAt(v, kw, <<"n", "a", "m", "e", ":">>)
           /\ id > sp2
           /\ stop > id
        THEN <<Slice(v, 1, stop - 1), Slice(v, id, stop - 1)>>
        ELSE <<>>

name(v) ==
    LET match == FindStringSubmatch(v)
    IN  IF Len(match) = 2 THEN match[2] ELSE unknown

span(prefix, command) ==
    LET n == name(command)
    IN  prefix \o <<" ">> \o (IF n # unknown THEN n ELSE command)

\* attribute.KeyValue
KeyValue(k, v) == [key |-> k, val |-> v]

\* trace.WithSpanKind / trace.WithAttributes, as start options
WithSpanKind(k) == [opt |-> "kind", kind |-> k, attrs |-> <<>>]

WithAttributes(kvs) == [opt |-> "attrs", kind |-> "", attrs |-> kvs]

\* a slip: the two values the wrong way round
query_Swapped(command) ==
    LET n == name(command)
    IN  <<WithAttributes(<<KeyValue("db.operation", command),
                           KeyValue("db.statement", n)>>)>>

query(command) ==
    LET n == name(command)
    IN  <<WithAttributes(<<KeyValue("db.operation", n),
                           KeyValue("db.statement", command)>>)>>

\* the connection descriptor the driver hands to every hook
Config == [Host |-> "db.local", Port |-> "5432", User |-> "app", Database |-> "shop"]

options(config) ==
    <<WithSpanKind("client"),
      WithAttributes(<<KeyValue("net.peer.name", config.Host),
                       KeyValue("net.peer.port", config.Port),
                       KeyValue("db.system", "postgresql"),
                       KeyValue("db.user", config.User),
                       KeyValue("db.name", config.Database)>>)>>

options2(config) ==
    <<WithSpanKind("client"),
      WithAttributes(<<KeyValue("net.peer.name", config.Host),
                       KeyValue("net.peer.port", config.Port),
                       KeyValue("db.user", config.User),
                       KeyValue("db.name", config.Database)>>)>>

(***************************************************************************)
(* Command tags and identifiers (pgconn.CommandTag, pgx.Identifier)        *)
(***************************************************************************)
DigitVal(c) == (CHOOSE i \in 1..Len(Digits) : Digits[i] = c) - 1

\* the start of the run of digits that ends the tag (Len+1 when there is none)
RECURSIVE LastDigits(_, _)
LastDigits(s, i) ==
    IF i >= 1 /\ s[i] \in DigitSet THEN LastDigits(s, i - 1) ELSE i + 1

RECURSIVE ParseDigits(_, _, _)
ParseDigits(s, i, n) ==
    IF i > Len(s) THEN n ELSE ParseDigits(s, i + 1, n * 10 + DigitVal(s[i]))

\* CommandTag.RowsAffected: the number that ends the tag, 0 when none
TagRowsAffected(tag) == ParseDigits(tag, LastDigits(tag, Len(tag)), 0)

DBRowsAffected(tag) == KeyValue("db.rows_affected", TagRowsAffected(tag))

RowsAffected(tag) == KeyValue("pgx.query.rows_affected", TagRowsAffected(tag))

DBOperationCount(batch) == KeyValue("db.operation_count", Len(batch))

BatchSize(batch) == KeyValue("pgx.batch.size", Len(batch))

\* pgx.Identifier.Sanitize: every part double-quoted, parts joined by "."
RECURSIVE Sanitize(_)
Sanitize(ident) ==
    IF ident = <<>> THEN <<>>
    ELSE <<"\"">> \o Head(ident) \o <<"\"">>
         \o (IF Len(ident) > 1 THEN <<".">> ELSE <<>>) \o Sanitize(Tail(ident))

(***************************************************************************)
(* Errors: a Go error is its Unwrap chain, outermost first; nil is <<>>    *)
(***************************************************************************)
NilErr == <<>>

ErrNode(k, c, m) == [kind |-> k, code |-> c, message |-> m]

SqlErrNoRows == <<ErrNode("sql.ErrNoRows", "", "sql: no rows in result set")>>

PgxErrNoRows == <<ErrNode("pgx.ErrNoRows", "", "no rows in result set")>>

PgError(c, m) == <<ErrNode("PgError", c, m)>>

PlainErr == <<ErrNode("error", "", "connection reset")>>

\* fmt.Errorf("exec: %w", e)
Wrap(e) == <<ErrNode("wrap", "", "exec: ")>> \o e

\* errors.Is(err, target) for a sentinel target
errorsIs(err, target) == \E i \in 1..Len(err) : err[i].kind = target

\* errors.As(err, &pgerr): <<>> when no *pgconn.PgError is in the chain, else
\* the first one
errorsAs(err) ==
    LET hits == {i \in 1..Len(err) : err[i].kind = "PgError"}
    IN  IF hits = {} THEN <<>>
        ELSE <<err[CHOOSE i \in hits : \A j \in hits : i <= j]>>

\* err.Error(), as the pieces it is put together from
RECURSIVE ErrorString(_)
ErrorString(err) ==
    IF err = <<>> THEN <<>>
    ELSE LET e == Head(err)
         IN  CASE e.kind = "wrap" -> <<e.message>> \o ErrorString(Tail(err))
               [] e.kind = "PgError" ->
                    <<"ERROR: ", e.message, " (SQLSTATE ", e.code, ")">>
               [] OTHER -> <<e.message>>

DBErrorCode(pgerr) == KeyValue("db.error_code", pgerr.code)

DBErrorMessage(pgerr) == KeyValue("db.error_message", pgerr.message)


(***************************************************************************)
(* The tracing API as the adapter uses it                                  *)
(***************************************************************************)
\* a call on a span, as a recording stub logs it
SetAttributes(kv) == [op |-> "SetAttributes", key |-> kv.key, val |-> kv.val]

RecordError(err) == [op |-> "RecordError", key |-> "error", val |-> err]

SetStatus(code, description) == [op |-> "SetStatus", key |-> code, val |-> description]

End == [op |-> "End", key |-> "", val |-> <<>>]

\* span.AddEvent(name), as the stub would log it; no hook calls it
AddEvent(nm) == [op |-> "AddEvent", key |-> nm, val |-> <<>>]

\* the span of the caller's context for operation slot i: not one of the
\* adapter's, recording or not
AmbientSpan(i, rec) == [own |-> FALSE, slot |-> i, idx |-> 0, recording |-> rec]

\* the context the driver passes to a Start hook
AmbientCtx(i, rec) == [slot |-> i, span |-> AmbientSpan(i, rec)]

SpanFromContext(ctx) == ctx.span

IsRecording(sp) == sp.recording

RECURSIVE OptAttrs(_)
OptAttrs(opts) ==
    IF opts = <<>> THEN <<>> ELSE Head(opts).attrs \o OptAttrs(Tail(opts))

OptKind(opts) ==
    LET ks == {j \in 1..Len(opts) : opts[j].opt = "kind"}
    IN  IF ks = {} THEN "internal"
        ELSE opts[CHOOSE j \in ks : \A k \in ks : k <= j].kind

\* t.tracer.Start(ctx, name, opts...): the new span, and ctx with it stored
TracerStart(ctx, nm, opts) ==
    LET ref == [own |-> TRUE, slot |-> ctx.slot,
                idx |-> Len(spans[ctx.slot]) + 1, recording |-> TRUE]
    IN  [ctx  |-> [slot |-> ctx.slot, span |-> ref],
         span |-> [name |-> nm, kind |-> OptKind(opts), attrs |-> OptAttrs(opts),
                   parent |-> ctx.span, calls |-> <<>>]]

(***************************************************************************)
(* Tracer.error, both variants                                             *)
(***************************************************************************)
\* a slip: a type assertion on err itself where errors.As walks the chain
error_TypeAssert(err) ==
    IF /\ err # NilErr
       /\ ~errorsIs(err, "sql.ErrNoRows")
       /\ ~errorsIs(err, "pgx.ErrNoRows")
    THEN <<RecordError(err), SetStatus("Error", ErrorString(err))>>
         \o (IF err[1].kind = "PgError"
             THEN <<SetAttributes(DBErrorCode(err[1])),
                    SetAttributes(DBErrorMessage(err[1]))>>
             ELSE <<>>)
    ELSE <<>>

\* a slip: the nil check left out
error_NoNilCheck(err) ==
    IF /\ ~errorsIs(err, "sql.ErrNoRows")
       /\ ~errorsIs(err, "pgx.ErrNoRows")
    THEN <<RecordError(err), SetStatus("Error", ErrorString(err))>>
         \o (LET pgerr == errorsAs(err)
             IN  IF Len(pgerr) > 0
                 THEN <<SetAttributes(DBErrorCode(pgerr[1])),
                        SetAttributes(DBErrorMessage(pgerr[1]))>>
                 ELSE <<>>)
    ELSE <<>>

error(err) ==
    IF /\ err # NilErr
       /\ ~errorsIs(err, "sql.ErrNoRows")
       /\ ~errorsIs(err, "pgx.ErrNoRows")
    THEN <<RecordError(err), SetStatus("Error", ErrorString(err))>>
         \o (LET pgerr == errorsAs(err)
             IN  IF Len(pgerr) > 0
                 THEN <<SetAttributes(DBErrorCode(pgerr[1])),
                        SetAttributes(DBErrorMessage(pgerr[1]))>>
                 ELSE <<>>)
    ELSE <<>>

error2(err) ==
    IF /\ err # NilErr
       /\ ~errorsIs(err, "sql.ErrNoRows")
       /\ ~errorsIs(err, "pgx.ErrNoRows")
    THEN <<RecordError(err), SetStatus("Error", ErrorString(err))>>
         \o (LET pgerr == errorsAs(err)
             IN  IF Len(pgerr) > 0
                 THEN <<SetAttributes(KeyValue("pgx.sql_state", pgerr[1].code))>>
                 ELSE <<>>)
    ELSE <<>>

\* the method each variant's hooks reach through t.error, t.options and the
\* rows-affected helper
errorOf(err) == IF variant = "db" THEN error(err) ELSE error2(err)

optionsOf(config) == IF variant = "db" THEN options(config) ELSE options2(config)

rowsAffectedOf(tag) == IF variant = "db" THEN DBRowsAffected(tag) ELSE RowsAffected(tag)

(***************************************************************************)
(* The hooks.  A Start hook yields the context it returns and the spans it *)
(* started; an End hook yields the span it took from the context and the   *)
(* calls it made on it, the deferred End last.                             *)
(***************************************************************************)
Str_connect == <<"c", "o", "n", "n", "e", "c", "t">>

Str_prepare == <<"p", "r", "e", "p", "a", "r", "e">>

Str_query == <<"q", "u", "e", "r", "y">>

Str_copy_from == <<"c", "o", "p", "y", "_", "f", "r", "o", "m">>

Str_batch == <<"b", "a", "t", "c", "h">>

Str_batch_query == <<"b", "a", "t", "c", "h", "_", "q", "u", "e", "r", "y">>

\* "batch query", the second variant's prefix
Str_batch_query2 == Str_batch \o <<" ">> \o Str_query

Started(st) == [ctx |-> st.ctx, created |-> <<st.span>>]

NotStarted(ctx) == [ctx |-> ctx, created |-> <<>>]

TraceConnectStart(ctx, data) ==
    IF ~IsRecording(SpanFromContext(ctx)) THEN NotStarted(ctx)
    ELSE Started(TracerStart(ctx, Str_connect, optionsOf(Config)))

\* a slip: a marker event added before the error is recorded
TraceConnectEnd_Marked(ctx, data) ==
    [target |-> SpanFromContext(ctx),
     calls  |-> <<AddEvent("end")>> \o errorOf(data.Err) \o <<End>>]

TraceConnectEnd(ctx, data) ==
    [target |-> SpanFromContext(ctx), calls |-> errorOf(data.Err) \o <<End>>]

\* a slip: the context tracer.Start returns dropped, the caller's returned
TracePrepareStart_DropsCtx(ctx, data) ==
    IF ~IsRecording(SpanFromContext(ctx)) THEN NotStarted(ctx)
    ELSE [ctx     |-> ctx,
          created |-> <<TracerStart(ctx, span(Str_prepare, data.SQL),
                                    optionsOf(Config) \o query(data.SQL)).span>>]

TracePrepareStart(ctx, data) ==
    IF ~IsRecording(SpanFromContext(ctx)) THEN NotStarted(ctx)
    ELSE Started(TracerStart(ctx, span(Str_prepare, data.SQL),
                             optionsOf(Config) \o query(data.SQL)))

TracePrepareEnd(ctx, data) ==
    [target |-> SpanFromContext(ctx), calls |-> errorOf(data.Err) \o <<End>>]

\* a slip: the recording check left out
TraceQueryStart_Unguarded(ctx, data) ==
    Started(TracerStart(ctx, span(Str_query, data.SQL),
                        optionsOf(Config) \o query(data.SQL)))

TraceQueryStart(ctx, data) ==
    IF ~IsRecording(SpanFromContext(ctx)) THEN NotStarted(ctx)
    ELSE Started(TracerStart(ctx, span(Str_query, data.SQL),
                             optionsOf(Config) \o query(data.SQL)))

\* a slip: the deferred span.End() left out
TraceQueryEnd_NoEnd(ctx, data) ==
    [target |-> SpanFromContext(ctx),
     calls  |-> (IF data.Err # NilErr
                 THEN <<SetAttributes(rowsAffectedOf(data.CommandTag))>>
                 ELSE <<>>)
                \o errorOf(data.Err)]

TraceQueryEnd(ctx, data) ==
    [target |-> SpanFromContext(ctx),
     calls  |-> (IF data.Err # NilErr
                 THEN <<SetAttributes(rowsAffectedOf(data.CommandTag))>>
                 ELSE <<>>)
                \o errorOf(data.Err) \o <<End>>]

TraceCopyFromStart(ctx, data) ==
    IF ~IsRecording(SpanFromContext(ctx)) THEN NotStarted(ctx)
    ELSE Started(TracerStart(ctx, Str_copy_from,
            options(Config)
            \o <<WithAttributes(<<KeyValue("db.sql.table", Sanitize(data.TableName))>>)>>))

TraceCopyFromStart2(ctx, data) ==
    IF ~IsRecording(SpanFromContext(ctx)) THEN NotStarted(ctx)
    ELSE Started(TracerStart(ctx, Str_copy_from \o <<" ">> \o Sanitize(data.TableName),
            options2(Config)
            \o <<WithAttributes(<<KeyValue("db.sql.table", Sanitize(data.TableName))>>)>>))

TraceCopyFromEnd(ctx, data) ==
    [target |-> SpanFromContext(ctx),
     calls  |-> (IF data.Err # NilErr
                 THEN <<SetAttributes(rowsAffectedOf(data.CommandTag))>>
                 ELSE <<>>)
                \o errorOf(data.Err) \o <<End>>]

TraceBatchStart(ctx, data) ==
    IF ~IsRecording(SpanFromContext(ctx)) THEN NotStarted(ctx)
    ELSE Started(TracerStart(ctx, Str_batch,
            options(Config) \o <<WithAttributes(<<DBOperationCount(data.Batch)>>)>>))

TraceBatchStart2(ctx, data) ==
    IF ~IsRecording(SpanFromContext(ctx)) THEN NotStarted(ctx)
    ELSE Started(TracerStart(ctx, Str_batch \o <<" ", "s", "t", "a", "r", "t">>,
            options2(Config) \o <<WithAttributes(<<BatchSize(data.Batch)>>)>>))

\* TraceBatchQuery starts a span of its own whatever the context holds, and
\* drops the context tracer.Start returns
TraceBatchQuery(ctx, data) ==
    LET st == TracerStart(ctx, Str_batch_query,
                  options(Config) \o query(data.SQL)
                  \o <<WithAttributes(<<DBRowsAffected(data.CommandTag)>>)>>)
    IN  [created |-> <<[st.span EXCEPT !.calls = error(data.Err) \o <<End>>]>>]

\* the second variant has no span.End()
TraceBatchQuery2(ctx, data) ==
    LET st == TracerStart(ctx, span(Str_batch_query2, data.SQL),
                  options2(Config) \o query(data.SQL))
    IN  [created |-> <<[st.span EXCEPT !.calls = error2(data.Err)]>>]

TraceBatchEnd(ctx, data) ==
    [target |-> SpanFromContext(ctx), calls |-> errorOf(data.Err) \o <<End>>]


(***************************************************************************)
(* State: one record per driver operation, and the stub's log              *)
(***************************************************************************)
\* what the driver passes to a hook; a hook reads only its own fields
Data(sql, table, batch, tag, err) ==
    [SQL |-> sql, TableName |-> table, Batch |-> batch, CommandTag |-> tag, Err |-> err]

NoData == Data(<<>>, <<>>, <<>>, <<>>, NilErr)

NoCtx == AmbientCtx(0, FALSE)

Idle ==
    [phase |-> "idle", kind |-> "none", ctxIn |-> NoCtx, ctxOut |-> NoCtx,
     start |-> NoData, items |-> <<>>, end |-> NoData]

Init ==
    /\ variant \in {"db", "pgx"}
    /\ ops = [i \in Ops |-> Idle]
    /\ amb = [i \in Ops |-> <<>>]
    /\ spans = [i \in Ops |-> <<>>]

\* the driver calls a Start hook with the caller's context and keeps the
\* context the hook returns
BeginOp(i, k, ctx, data, res) ==
    /\ ops[i].phase = "idle"
    /\ ops' = [ops EXCEPT ![i] = [phase |-> "started", kind |-> k, ctxIn |-> ctx,
                                  ctxOut |-> res.ctx, start |-> data,
                                  items |-> <<>>, end |-> NoData]]
    /\ spans' = [spans EXCEPT ![i] = @ \o res.created]
    /\ UNCHANGED <<variant, amb>>

\* the calls a hook made land on the span it made them on
Log(target, calls) ==
    IF target.own
    THEN /\ spans' = [spans EXCEPT ![target.slot][target.idx].calls = @ \o calls]
         /\ amb' = amb
    ELSE /\ amb' = [amb EXCEPT ![target.slot] = @ \o calls]
         /\ spans' = spans

\* the driver calls the End hook with the context its Start hook returned
FinishOp(i, k, data, res) ==
    /\ ops[i].phase = "started"
    /\ ops[i].kind = k
    /\ ops' = [ops EXCEPT ![i].phase = "ended", ![i].end = data]
    /\ Log(res.target, res.calls)
    /\ UNCHANGED variant

ConnectStart(i, rec) ==
    LET ctx == AmbientCtx(i, rec)
    IN  BeginOp(i, "connect", ctx, NoData, TraceConnectStart(ctx, NoData))

ConnectEnd(i, err) ==
    LET data == Data(<<>>, <<>>, <<>>, <<>>, err)
    IN  FinishOp(i, "connect", data, TraceConnectEnd(ops[i].ctxOut, data))

PrepareStart(i, rec, sql) ==
    LET ctx  == AmbientCtx(i, rec)
        data == Data(sql, <<>>, <<>>, <<>>, NilErr)
    IN  BeginOp(i, "prepare", ctx, data, TracePrepareStart(ctx, data))

PrepareEnd(i, err) ==
    LET data == Data(<<>>, <<>>, <<>>, <<>>, err)
    IN  FinishOp(i, "prepare", data, TracePrepareEnd(ops[i].ctxOut, data))

QueryStart(i, rec, sql) ==
    LET ctx  == AmbientCtx(i, rec)
        data == Data(sql, <<>>, <<>>, <<>>, NilErr)
    IN  BeginOp(i, "query", ctx, data, TraceQueryStart(ctx, data))

QueryEnd(i, tag, err) ==
    LET data == Data(<<>>, <<>>, <<>>, tag, err)
    IN  FinishOp(i, "query", data, TraceQueryEnd(ops[i].ctxOut, data))

CopyFromStart(i, rec, table) ==
    LET ctx  == AmbientCtx(i, rec)
        data == Data(<<>>, table, <<>>, <<>>, NilErr)
    IN  BeginOp(i, "copy", ctx, data,
                IF variant = "db" THEN TraceCopyFromStart(ctx, data)
                ELSE TraceCopyFromStart2(ctx, data))

CopyFromEnd(i, tag, err) ==
    LET data == Data(<<>>, <<>>, <<>>, tag, err)
    IN  FinishOp(i, "copy", data, TraceCopyFromEnd(ops[i].ctxOut, data))

BatchStart(i, rec, batch) ==
    LET ctx  == AmbientCtx(i, rec)
        data == Data(<<>>, <<>>, batch, <<>>, NilErr)
    IN  BeginOp(i, "batch", ctx, data,
                IF variant = "db" THEN TraceBatchStart(ctx, data)
                ELSE TraceBatchStart2(ctx, data))

\* one call per queued query, in order, as its result is read
BatchQuery(i, tag, err) ==
    /\ ops[i].phase = "started"
    /\ ops[i].kind = "batch"
    /\ Len(ops[i].items) < Len(ops[i].start.Batch)
    /\ LET data == Data(ops[i].start.Batch[Len(ops[i].items) + 1], <<>>, <<>>, tag, err)
           res  == IF variant = "db" THEN TraceBatchQuery(ops[i].ctxOut, data)
                   ELSE TraceBatchQuery2(ops[i].ctxOut, data)
       IN  /\ ops' = [ops EXCEPT ![i].items = Append(@, data)]
           /\ spans' = [spans EXCEPT ![i] = @ \o res.created]
    /\ UNCHANGED <<variant, amb>>

BatchEnd(i, err) ==
    LET data == Data(<<>>, <<>>, <<>>, <<>>, err)
    IN  FinishOp(i, "batch", data, TraceBatchEnd(ops[i].ctxOut, data))

(***************************************************************************)
(* Inputs                                                                  *)
(***************************************************************************)
Tag_select == <<"S", "E", "L", "E", "C", "T", " ", "1">>

Tag_insert == <<"I", "N", "S", "E", "R", "T", " ", "0", " ", "1", "2">>

Tag_update == <<"U", "P", "D", "A", "T", "E", " ", "3">>

Tag_delete == <<"D", "E", "L", "E", "T", "E", " ", "0">>

Tag_create == <<"C", "R", "E", "A", "T", "E", " ", "T", "A", "B", "L", "E">>

Tags == {Tag_select, Tag_insert, Tag_update, Tag_delete, Tag_create, <<>>}

Table_t == <<<<"p", "u", "b", "l", "i", "c">>, <<"t">>>>

SQL_select == <<"S", "E", "L", "E", "C", "T", " ", "1">>

SQL_named == <<"-", "-", " ", "n", "a", "m", "e", ":", " ", "f", "\n", "S", "E", "L", "E", "C", "T", " ", "1">>

RECURSIVE WrapUpTo(_, _)
WrapUpTo(S, n) ==
    IF n = 0 THEN S ELSE S \cup {Wrap(e) : e \in WrapUpTo(S, n - 1)}

BaseErrs ==
    {SqlErrNoRows, PgxErrNoRows, PlainErr,
     PgError("23505", "duplicate key"), PgError("40001", "serialization failure")}

Errs == {NilErr} \cup WrapUpTo(BaseErrs, MaxWrap)

(***************************************************************************)
(* Specifications                                                          *)
(***************************************************************************)
NextOver(slots, sqls, batches, tags, errs, itemErrs) ==
    \E i \in slots :
        \/ \E rec \in BOOLEAN : ConnectStart(i, rec)
        \/ \E err \in errs : ConnectEnd(i, err)
        \/ \E rec \in BOOLEAN, sql \in sqls : PrepareStart(i, rec, sql)
        \/ \E err \in errs : PrepareEnd(i, err)
        \/ \E rec \in BOOLEAN, sql \in sqls : QueryStart(i, rec, sql)
        \/ \E tag \in tags, err \in errs : QueryEnd(i, tag, err)
        \/ \E rec \in BOOLEAN : CopyFromStart(i, rec, Table_t)
        \/ \E tag \in tags, err \in errs : CopyFromEnd(i, tag, err)
        \/ \E rec \in BOOLEAN, batch \in batches : BatchStart(i, rec, batch)
        \/ \E tag \in tags, err \in itemErrs : BatchQuery(i, tag, err)
        \/ \E err \in errs : BatchEnd(i, err)

\* operations in flight together, each on its own context
Next == NextOver(Ops, {SQL_named}, {[k \in 1..MaxBatch |-> SQL_named]},
                 {Tag_select}, {NilErr, PlainErr}, {NilErr})

Spec == Init /\ [][Next]_vars

\* one operation at a time, every error and every command tag
NextErr == NextOver({1}, {SQL_select}, {<<>>, <<SQL_select>>}, Tags, Errs, Errs)

SpecErr == Init /\ [][NextErr]_vars

\* statements with and without a leading name comment
Gaps == {<<" ">>, <<"\t">>, <<" ", " ">>, <<"\n">>}

Idents == {<<"f">>, <<"G", "e", "t", "_", "1">>, <<"9">>, unknown, <<"u", "n", "k", "n", "o", "w", "n", "s">>}

Rests == {<<>>, <<"\n", "S", "E", "L", "E", "C", "T", " ", "1">>, <<" ", ":", "o", "n", "e", "\n", "S", "E", "L", "E", "C", "T", " ", "1">>, <<"-", "x">>}

CommentedStatements ==
    {<<"-", "-">> \o a \o <<"n", "a", "m", "e", ":">> \o b \o id \o rest :
        a \in Gaps, b \in Gaps, id \in Idents, rest \in Rests}

OtherStatements ==
    {<<>>, SQL_select,
     <<"-", "-", "n", "a", "m", "e", ":", " ", "f", "\n", "S", "E", "L", "E", "C", "T", " ", "1">>,
     <<"-", "-", " ", "n", "a", "m", "e", ":", "f", "\n", "S", "E", "L", "E", "C", "T", " ", "1">>,
     <<" ", "-", "-", " ", "n", "a", "m", "e", ":", " ", "f", "\n", "S", "E", "L", "E", "C", "T", " ", "1">>,
     <<"-", "-", " ", "N", "a", "m", "e", ":", " ", "f", "\n", "S", "E", "L", "E", "C", "T", " ", "1">>,
     <<"-", "-", " ", "n", "a", "m", "e", ":", " ", "\n", "S", "E", "L", "E", "C", "T", " ", "1">>,
     <<"-", "-", " ", "n", "a", "m", "e", ":", " ", "-", "f">>,
     <<"-", " ", "n", "a", "m", "e", ":", " ", "f">>,
     <<"S", "E", "L", "E", "C", "T", " ", "1", " ", "-", "-", " ", "n", "a", "m", "e", ":", " ", "f">>,
     <<"-", "-", " ", "n", "a", "m", "e">>}

Statements == CommentedStatements \cup OtherStatements

\* one operation at a time, every statement
NextName == NextOver({1}, Statements, {<<>>} \cup {<<q>> : q \in Statements},
                     Tags, {NilErr}, {NilErr})

SpecName == Init /\ [][NextName]_vars


(***************************************************************************)
(* Reading the state                                                       *)
(***************************************************************************)
Recording(i) == ops[i].ctxIn.span.recording

\* whether the Start hook of slot i stored a span of the adapter's in the
\* context it returned
Opened(i) == ops[i].ctxOut.span.own

StartSpan(i) == spans[i][ops[i].ctxOut.span.idx]

\* the spans TraceBatchQuery started in slot i: all but the Start hook's
ItemIdx(i) ==
    {j \in 1..Len(spans[i]) : ~(Opened(i) /\ j = ops[i].ctxOut.span.idx)}

\* the calls made on the span the End hook of slot i finds in its context
TargetCalls(i) == IF Opened(i) THEN StartSpan(i).calls ELSE amb[i]

CountOp(calls, o) == Cardinality({j \in 1..Len(calls) : calls[j].op = o})

HasCall(calls, c) ==
    \E j \in 1..Len(calls) :
        calls[j].op = c.op /\ calls[j].key = c.key /\ calls[j].val = c.val

HasKey(calls, k) ==
    \E j \in 1..Len(calls) : calls[j].op = "SetAttributes" /\ calls[j].key = k

\* the values a span's start attributes give to key k
AttrVals(sp, k) == {sp.attrs[j].val : j \in {x \in 1..Len(sp.attrs) : sp.attrs[x].key = k}}

IsNoRows(err) == errorsIs(err, "sql.ErrNoRows") \/ errorsIs(err, "pgx.ErrNoRows")

HasPgError(err) == \E j \in 1..Len(err) : err[j].kind = "PgError"

ThePgError(err) == err[CHOOSE j \in 1..Len(err) : err[j].kind = "PgError"
                                                  /\ \A k \in 1..(j - 1) : err[k].kind # "PgError"]

EndHookOf(k, ctx, data) ==
    CASE k = "connect" -> TraceConnectEnd(ctx, data)
      [] k = "prepare" -> TracePrepareEnd(ctx, data)
      [] k = "query" -> TraceQueryEnd(ctx, data)
      [] k = "copy" -> TraceCopyFromEnd(ctx, data)
      [] k = "batch" -> TraceBatchEnd(ctx, data)

(***************************************************************************)
(* C1                                                                      *)
(***************************************************************************)
\* C1: when the span of the context a Start hook is given is not recording,
\* the hook returns that very context and starts no span: the only spans of
\* the operation are the ones its TraceBatchQuery calls started, one each.
C1_NonRecordingStartReturnsCtx ==
    \A i \in Ops :
        (ops[i].phase # "idle" /\ ~Recording(i)) =>
            /\ ops[i].ctxOut = ops[i].ctxIn
            /\ Len(spans[i]) = Len(ops[i].items)

\* all five kinds are covered over the runs; in this state a batch and a
\* second operation of another kind have both been started without recording
C1_Witness ==
    \E i \in Ops, j \in Ops :
        /\ i # j
        /\ ops[i].kind = "batch" /\ ops[i].phase = "started" /\ ~Recording(i)
        /\ ops[i].items = <<>> /\ spans[i] = <<>>
        /\ ops[j].kind \in {"connect", "prepare", "query", "copy"}
        /\ ops[j].phase = "started" /\ ~Recording(j) /\ spans[j] = <<>>

(***************************************************************************)
(* C2                                                                      *)
(***************************************************************************)
\* C2: under a recording context a Start hook opens exactly one span, child
\* of the caller's span, and returns a context holding it; the End hook ends
\* exactly that span exactly once, as its last call, and touches no other
\* span, however the operations interleave.
C2_LifecyclePairing ==
    \A i \in Ops :
        (ops[i].phase # "idle" /\ Recording(i)) =>
            /\ Opened(i)
            /\ ops[i].ctxOut.span.slot = i
            /\ Len(spans[i]) = 1 + Len(ops[i].items)
            /\ StartSpan(i).parent = ops[i].ctxIn.span
            /\ amb[i] = <<>>
            /\ ops[i].phase = "started" => StartSpan(i).calls = <<>>
            /\ ops[i].phase = "ended" =>
                   /\ CountOp(StartSpan(i).calls, "End") = 1
                   /\ StartSpan(i).calls[Len(StartSpan(i).calls)] = End

\* every operation has had its Start and its End under a recording context,
\* a batch with all its items among them
C2_Witness ==
    /\ \A i \in Ops : ops[i].phase = "ended" /\ Recording(i)
    /\ \E i \in Ops : ops[i].kind = "batch" /\ Len(ops[i].items) = MaxBatch
    /\ \E i \in Ops : ops[i].kind = "query" /\ ops[i].end.Err = PlainErr


(***************************************************************************)
(* C3                                                                      *)
(***************************************************************************)
\* C3: an End hook given an error that is or wraps a no-rows sentinel makes
\* exactly the calls, in the same order, that it makes for the same data with
\* no error.
C3_NoRowsLikeSuccess ==
    \A i \in Ops :
        (ops[i].phase = "ended" /\ IsNoRows(ops[i].end.Err)) =>
            TargetCalls(i) =
                EndHookOf(ops[i].kind, ops[i].ctxOut,
                          [ops[i].end EXCEPT !.Err = NilErr]).calls

(***************************************************************************)
(* C4                                                                      *)
(***************************************************************************)
\* C4: when a query or a copy has completed, its End hook has set the
\* rows-affected attribute of the command tag on the operation's span, and
\* before ending it.
C4_RowsAffectedOnCompletion ==
    \A i \in Ops :
        (ops[i].phase = "ended" /\ Opened(i) /\ ops[i].kind \in {"query", "copy"}) =>
            \E j \in 1..Len(TargetCalls(i)) :
                /\ TargetCalls(i)[j] = SetAttributes(rowsAffectedOf(ops[i].end.CommandTag))
                /\ \A k \in 1..j : TargetCalls(i)[k].op # "End"

(***************************************************************************)
(* C5                                                                      *)
(***************************************************************************)
\* the same, for the hooks that acted on a span the adapter started
C5_Reports ==
    {<<TargetCalls(i), ops[i].end.Err>> :
        i \in {x \in Ops : ops[x].phase = "ended" /\ Opened(x)}}
    \cup UNION {{<<spans[i][Len(spans[i]) - Len(ops[i].items) + j].calls,
                   ops[i].items[j].Err>> : j \in 1..Len(ops[i].items)} : i \in Ops}

\* the calls of a hook that was given err record it and mark the span failed
C5_Reported(calls, err) ==
    /\ HasCall(calls, RecordError(err))
    /\ HasCall(calls, SetStatus("Error", ErrorString(err)))

\* the errors C5 is about
C5_Structured(err) == err # NilErr /\ ~IsNoRows(err) /\ HasPgError(err)

\* the calls every End hook and every TraceBatchQuery made, each with the
\* error it was given
Reports ==
    {<<TargetCalls(i), ops[i].end.Err>> : i \in {x \in Ops : ops[x].phase = "ended"}}
    \cup UNION {{<<spans[i][Len(spans[i]) - Len(ops[i].items) + j].calls,
                   ops[i].items[j].Err>> : j \in 1..Len(ops[i].items)} : i \in Ops}

\* C5 as claimed: for an error that is no no-rows sentinel and is or wraps a
\* PgError, every End hook and TraceBatchQuery records the error, sets status
\* Error with its message, and sets db.error_code and db.error_message.
C5_Original ==
    \A r \in C5_Reports :
        C5_Structured(r[2]) =>
            /\ C5_Reported(r[1], r[2])
            /\ HasCall(r[1], SetAttributes(KeyValue("db.error_code", ThePgError(r[2]).code)))
            /\ HasCall(r[1], SetAttributes(KeyValue("db.error_message", ThePgError(r[2]).message)))

\* C5, amended: for such an error every End hook and TraceBatchQuery records
\* the error and sets status Error with its message; the "db" variant then
\* sets db.error_code and db.error_message, the "pgx" variant sets only
\* pgx.sql_state, to the error's code, and no message attribute.
C5_StructuredErrorAttributes ==
    \A r \in C5_Reports :
        C5_Structured(r[2]) =>
            /\ C5_Reported(r[1], r[2])
            /\ variant = "db" =>
                /\ HasCall(r[1], SetAttributes(KeyValue("db.error_code", ThePgError(r[2]).code)))
                /\ HasCall(r[1], SetAttributes(KeyValue("db.error_message", ThePgError(r[2]).message)))
                /\ ~HasKey(r[1], "pgx.sql_state")
            /\ variant = "pgx" =>
                /\ HasCall(r[1], SetAttributes(KeyValue("pgx.sql_state", ThePgError(r[2]).code)))
                /\ ~HasKey(r[1], "db.error_code")
                /\ ~HasKey(r[1], "db.error_message")

\* a batch whose item and whose end both failed with a wrapped PgError, in the
\* "pgx" variant
C5_Witness ==
    /\ variant = "pgx"
    /\ ops[1].kind = "batch" /\ ops[1].phase = "ended" /\ Recording(1)
    /\ Len(ops[1].items) = 1
    /\ ops[1].items[1].Err = Wrap(PgError("40001", "serialization failure"))
    /\ ops[1].end.Err = Wrap(PgError("23505", "duplicate key"))
    /\ HasCall(StartSpan(1).calls, SetAttributes(KeyValue("pgx.sql_state", "23505")))

(***************************************************************************)
(* C6                                                                      *)
(***************************************************************************)
\* C6: a hook given no error (End hooks and TraceBatchQuery, any kind, any
\* command tag) never calls RecordError and never sets a status.
C6_SuccessRecordsNoError ==
    \A r \in Reports :
        r[2] = NilErr =>
            /\ CountOp(r[1], "RecordError") = 0
            /\ CountOp(r[1], "SetStatus") = 0

\* a query that ended without error on a span of the adapter's
C6_Witness ==
    /\ ops[1].kind = "query" /\ ops[1].phase = "ended" /\ Recording(1)
    /\ ops[1].end.Err = NilErr /\ ops[1].end.CommandTag = Tag_insert
    /\ StartSpan(1).calls = <<End>>


(***************************************************************************)
(* C7, C8, C9: naming.  The name comment is stated here on its own, by the *)
(* shape of the text, and not through FindStringSubmatch.                  *)
(***************************************************************************)
AllIn(s, from, to, class) == \A x \in from..to : s[x] \in class

\* the places <<p, q>> of s where an identifier stands after a leading
\* "--", a gap, "name:" and a gap, the gaps being non-empty runs of gap
\* characters and the identifier a whole run of word characters
IdentPlaces(s, gap) ==
    IF ~HasAt(s, 1, <<"-", "-">>) THEN {}
    ELSE {pq \in (1..Len(s)) \X (1..Len(s)) :
            /\ pq[1] <= pq[2]
            /\ AllIn(s, pq[1], pq[2], WordClass)
            /\ (pq[2] = Len(s) \/ s[pq[2] + 1] \notin WordClass)
            /\ \E n \in 4..(pq[1] - 6) :
                  /\ AllIn(s, 3, n - 1, gap)
                  /\ HasAt(s, n, <<"n", "a", "m", "e", ":">>)
                  /\ AllIn(s, n + 5, pq[1] - 1, gap)}

\* the identifier foo of a first line "-- name: foo" (blanks or tabs for
\* gaps, the line ending after foo), as a set: empty when s has no such line
LineName(s) ==
    {Slice(s, pq[1], pq[2]) :
        pq \in {x \in IdentPlaces(s, {" ", "\t"}) :
                  x[2] = Len(s) \/ s[x[2] + 1] \in {"\n", "\r"}}}

\* the identifier of a leading comment "-- name: <identifier>": the comment
\* is the first line, so its gaps are blanks or tabs; anything may follow
\* the identifier
CommentName(s) == {Slice(s, pq[1], pq[2]) : pq \in IdentPlaces(s, {" ", "\t"})}

\* the same with any white space for gaps, line breaks too: what the
\* pattern ^--\s+name:\s+(\w+) takes for the identifier
PatternName(s) == {Slice(s, pq[1], pq[2]) : pq \in IdentPlaces(s, SpaceClass)}

\* the spans of query-shaped hooks: the span, the statement it was started
\* for, the command tag of the hook that completed it, and the prefix of
\* its name where the hook names it through span (<<>> where it does not)
QuerySpans ==
    {[sp |-> StartSpan(i), sql |-> ops[i].start.SQL,
      prefix |-> IF ops[i].kind = "query" THEN Str_query ELSE Str_prepare,
      done |-> ops[i].phase = "ended" /\ ops[i].kind = "query",
      tag |-> ops[i].end.CommandTag] :
        i \in {x \in Ops : ops[x].phase # "idle" /\ Opened(x)
                           /\ ops[x].kind \in {"prepare", "query"}}}
    \cup UNION {{[sp |-> spans[i][Len(spans[i]) - Len(ops[i].items) + j],
                  sql |-> ops[i].items[j].SQL,
                  prefix |-> IF variant = "pgx" THEN Str_batch_query2 ELSE <<>>,
                  done |-> TRUE,
                  tag |-> ops[i].items[j].CommandTag] :
                    j \in 1..Len(ops[i].items)} : i \in Ops}

\* C7: a statement that begins with a line "-- name: foo" gets the span name
\* "<prefix> foo" from every hook that names its span after the statement.
C7_NamedSpanName ==
    \A r \in QuerySpans :
        (r.prefix # <<>> /\ LineName(r.sql) # {}) =>
            \A foo \in LineName(r.sql) : r.sp.name = r.prefix \o <<" ">> \o foo

\* C8: a statement that does not begin with a "-- name: <identifier>" comment
\* falls back the same way everywhere: db.operation is "unknown", and the
\* span name, where the hook derives it, is the prefix, a space and the
\* statement as it was given.
C8_FallbackUnknown ==
    \A r \in QuerySpans :
        CommentName(r.sql) = {} =>
            /\ AttrVals(r.sp, "db.operation") = {unknown}
            /\ AttrVals(r.sp, "db.statement") = {r.sql}
            /\ r.prefix # <<>> => r.sp.name = r.prefix \o <<" ">> \o r.sql

\* the verb of a command tag, as C9 has it
C9_TagVerb(tag) ==
    CASE HasAt(tag, 1, <<"S", "E", "L", "E", "C", "T">>) -> <<"S", "E", "L", "E", "C", "T">>
      [] HasAt(tag, 1, <<"I", "N", "S", "E", "R", "T">>) -> <<"I", "N", "S", "E", "R", "T">>
      [] HasAt(tag, 1, <<"U", "P", "D", "A", "T", "E">>) -> <<"U", "P", "D", "A", "T", "E">>
      [] HasAt(tag, 1, <<"D", "E", "L", "E", "T", "E">>) -> <<"D", "E", "L", "E", "T", "E">>
      [] OTHER -> <<"U", "N", "K", "N", "O", "W", "N">>

\* the values db.operation has been given on a span, at its start or later
C9_Operation(sp) ==
    AttrVals(sp, "db.operation")
    \cup {sp.calls[j].val :
            j \in {x \in 1..Len(sp.calls) :
                     sp.calls[x].op = "SetAttributes" /\ sp.calls[x].key = "db.operation"}}

C10_BatchItemsEnded ==
    \A i \in Ops : \A j \in ItemIdx(i) : CountOp(spans[i][j].calls, "End") = 1

(***************************************************************************)
(* C11                                                                     *)
(***************************************************************************)
\* C11: a span is opened if and only if the context of the opening call held
\* a recording span: every Start hook called under a recording context has
\* opened one, and no span at all, TraceBatchQuery's included, was opened
\* under a context whose span was not recording.
C11_OpenedIffRecording ==
    \A i \in Ops :
        ops[i].phase # "idle" =>
            /\ Recording(i) => Opened(i)
            /\ \A j \in 1..Len(spans[i]) : spans[i][j].parent.recording
            /\ ~Recording(i) => Len(spans[i]) = 0

(***************************************************************************)
(* C12                                                                     *)
(***************************************************************************)
\* the calls made on the spans the adapter started, and on the callers'
AllCalls ==
    UNION {{spans[i][j].calls : j \in 1..Len(spans[i])} : i \in Ops}
    \cup {amb[i] : i \in Ops}

\* the place of the first call of calls that is in set S, Len + 1 when none
FirstOf(calls, S) ==
    LET hits == {j \in 1..Len(calls) : calls[j] \in S}
    IN  IF hits = {} THEN Len(calls) + 1
        ELSE CHOOSE j \in hits : \A k \in hits : j <= k

C13_ForeignSpansUntouched ==
    \A i \in Ops :
        /\ amb[i] # <<>> => (ops[i].phase = "ended" /\ ~Recording(i))
        /\ (ops[i].phase # "idle" /\ Recording(i)) =>
               /\ amb[i] = <<>>
               /\ Opened(i)
               /\ StartSpan(i).parent = AmbientSpan(i, TRUE)
               /\ \A j \in ItemIdx(i) : spans[i][j].parent = ops[i].ctxOut.span
        /\ (ops[i].phase # "idle" /\ ~Recording(i)) =>
               /\ ~Opened(i)
               /\ SpanFromContext(ops[i].ctxOut) = AmbientSpan(i, FALSE)
               /\ ops[i].phase = "started" => amb[i] = <<>>
               /\ ops[i].phase = "ended" =>
                      amb[i] = EndHookOf(ops[i].kind, ops[i].ctxOut, ops[i].end).calls
        /\ (ops[i].phase = "ended" /\ Recording(i)) =>
               StartSpan(i).calls =
                   EndHookOf(ops[i].kind, ops[i].ctxOut, ops[i].end).calls

\* a prepare that failed on a span of the adapter's, the caller's recording
\* span untouched, beside a batch whose Start was skipped and whose End fell
\* on the caller's non-recording span after an item was read
C13_Witness ==
    \E i \in Ops, j \in Ops :
        /\ ops[i].kind = "prepare" /\ ops[i].phase = "ended" /\ Recording(i)
        /\ ops[i].end.Err = PlainErr /\ amb[i] = <<>>
        /\ CountOp(StartSpan(i).calls, "End") = 1
        /\ ops[j].kind = "batch" /\ ops[j].phase = "ended" /\ ~Recording(j)
        /\ Len(ops[j].items) >= 1
        /\ amb[j] = <<End>>

====
